---- MODULE Spec2Model ----
(***************************************************************************)
(* A model of vincenzo.py: the metadata resolution pipeline that turns a   *)
(* model listing URL into the seven detail fields and a preview image URL, *)
(* and process_url, which runs the pipeline and saves what it returned.    *)
(*                                                                         *)
(* Python values are tagged records: k names the Python type and a field   *)
(* of its own (s, n, items, d) holds the payload.  Strings are sequences   *)
(* of one-character strings so that strip(), upper(), comparison and       *)
(* searching are computed character by character.  Dictionaries are        *)
(* functions from key names to values.  An operator that models a Python   *)
(* function returns Raise where the Python code would leave the function   *)
(* by an uncaught exception.                                               *)
(***************************************************************************)
EXTENDS Integers, Sequences, FiniteSets, TLC

VARIABLES
    pc,            \* the statement of the running function that executes next
    url,           \* argument of extract_details_from_url
    model_id,      \* extract_ids_from_url(url)[0]
    version_id,    \* extract_ids_from_url(url)[1]
    html,          \* what fetch_html returned
    next_data,     \* what extract_next_data returned
    model_data,    \* what find_model_from_trpc returned
    version_data,  \* what choose_model_version returned
    details,       \* what extract_fields returned
    preview_url,   \* the preview URL found so far
    calls,         \* the network requests and page scans made so far, in order
    outcome,       \* "running", "returned" or "raised"
    api_answer,    \* what the API answered in this run, None while not asked
    earlier,       \* what an earlier run for the same url observed and returned
    status,        \* what process_url returned, None while it has not
    saved          \* the calls of the two save functions so far and what each did

vars == <<pc, url, model_id, version_id, html, next_data, model_data,
          version_data, details, preview_url, calls, outcome, api_answer,
          earlier, status, saved>>

-----------------------------------------------------------------------------
(* Characters and strings                                                  *)

\* The printable ASCII characters in code-point order (32 .. 126); "grave"
\* holds the place of the grave accent (96), which no string here uses.
Ascii ==
    <<" ", "!", "\"", "#", "$", "%", "&", "'", "(", ")", "*", "+", ",", "-", ".", "/", "0",
    "1", "2", "3", "4", "5", "6", "7", "8", "9", ":", ";", "<", "=", ">", "?", "@", "A", "B",
    "C", "D", "E", "F", "G", "H", "I", "J", "K", "L", "M", "N", "O", "P", "Q", "R", "S", "T",
    "U", "V", "W", "X", "Y", "Z", "[", "\\", "]", "^", "_", "grave", "a", "b", "c", "d", "e", "f",
    "g", "h", "i", "j", "k", "l", "m", "n", "o", "p", "q", "r", "s", "t", "u", "v", "w", "x",
    "y", "z", "{", "|", "}", "~">>

\* the characters mapped to their places in Ascii
RECURSIVE OrdTable(_)
OrdTable(n) == IF n = 0 THEN <<>> ELSE OrdTable(n - 1) @@ (Ascii[n] :> n)

OrdMap == OrdTable(Len(Ascii))

\* ord(c) - 31

\* the characters mapped to their upper-case forms: a lower-case letter is 32
\* code points behind its capital
RECURSIVE UpperTable(_)
UpperTable(n) ==
    IF n = 0 THEN <<>>
    ELSE UpperTable(n - 1)
           @@ (Ascii[n] :> IF n >= OrdMap["a"] /\ n <= OrdMap["z"] THEN Ascii[n - 32]
                           ELSE Ascii[n])

UpperMap == UpperTable(Len(Ascii))

\* str.upper() on one character

\* str.upper()
Upper(s) == [i \in 1..Len(s) |-> UpperMap[s[i]]]

IsSpace(c) == c = " "

RECURSIVE LStrip(_)
LStrip(s) == IF s # <<>> /\ IsSpace(Head(s)) THEN LStrip(Tail(s)) ELSE s

RECURSIVE RStrip(_)
RStrip(s) ==
    IF s # <<>> /\ IsSpace(s[Len(s)]) THEN RStrip(SubSeq(s, 1, Len(s) - 1)) ELSE s

\* str.strip()
Strip(s) == RStrip(LStrip(s))

\* a < b for two str values: code points compared left to right, a proper
\* prefix is smaller
RECURSIVE StrLess(_, _)
StrLess(a, b) ==
    IF b = <<>> THEN FALSE
    ELSE IF a = <<>> THEN TRUE
    ELSE IF Head(a) = Head(b) THEN StrLess(Tail(a), Tail(b))
    ELSE OrdMap[Head(a)] < OrdMap[Head(b)]

\* s.startswith(p)
StartsWith(s, p) == Len(s) >= Len(p) /\ SubSeq(s, 1, Len(p)) = p

\* sub in s
Contains(s, sub) ==
    \E i \in 0..(Len(s) - Len(sub)) : SubSeq(s, i + 1, i + Len(sub)) = sub

IsDigit(c) == OrdMap[c] >= OrdMap["0"] /\ OrdMap[c] <= OrdMap["9"]

AllDigits(s) == s # <<>> /\ \A i \in 1..Len(s) : IsDigit(s[i])

\* the value of a string of decimal digits
RECURSIVE DigitsValue(_)
DigitsValue(s) ==
    IF s = <<>> THEN 0
    ELSE 10 * DigitsValue(SubSeq(s, 1, Len(s) - 1)) + (OrdMap[s[Len(s)]] - OrdMap["0"])

\* str(n) for an int n >= 0
RECURSIVE DigitsOf(_)
DigitsOf(n) ==
    IF n < 10 THEN <<Ascii[OrdMap["0"] + n]>>
    ELSE DigitsOf(n \div 10) \o <<Ascii[OrdMap["0"] + (n % 10)]>>

-----------------------------------------------------------------------------
(* Python values                                                           *)

None == [k |-> "none"]
Raise == [k |-> "raise"]
MkStr(s) == [k |-> "str", s |-> s]
MkInt(n) == [k |-> "int", n |-> n]
MkList(xs) == [k |-> "list", items |-> xs]
MkDict(f) == [k |-> "dict", d |-> f]
EmptyDict == MkDict(<<>>)

IsNone(x) == x.k = "none"
IsList(x) == x.k = "list"
IsDict(x) == x.k = "dict"
Raised(x) == x.k = "raise"

\* bool(x): None, "", 0, [] and {} are false
Truthy(x) ==
    CASE x.k = "none" -> FALSE
      [] x.k = "str" -> x.s # <<>>
      [] x.k = "int" -> x.n # 0
      [] x.k = "list" -> x.items # <<>>
      [] x.k = "dict" -> DOMAIN x.d # {}
      [] OTHER -> FALSE

\* a or b
Or(a, b) == IF Truthy(a) THEN a ELSE b

\* d.get(key) for a dict d
Get(d, key) == IF key \in DOMAIN d.d THEN d.d[key] ELSE None

\* d.get(key, default) for a dict d
GetOr(d, key, default) == IF key \in DOMAIN d.d THEN d.d[key] ELSE default

\* x[key] for a str key: Raise stands for KeyError (no such key) and TypeError
\* (x is no dict)
Subscript(x, key) ==
    IF IsDict(x) /\ key \in DOMAIN x.d THEN x.d[key] ELSE Raise

\* a == b
PyEq(a, b) ==
    /\ a.k = b.k
    /\ CASE a.k = "str" -> a.s = b.s
         [] a.k = "int" -> a.n = b.n
         [] a.k = "list" -> a.items = b.items
         [] a.k = "dict" -> a.d = b.d
         [] OTHER -> TRUE

\* the text of str(x); above all str(None) is "None"
StrOf(x) ==
    CASE x.k = "str" -> x.s
      [] x.k = "int" -> IF x.n < 0 THEN <<"-">> \o DigitsOf(0 - x.n) ELSE DigitsOf(x.n)
      [] x.k = "none" -> <<"N", "o", "n", "e">>
      [] OTHER -> <<"?">>

\* int(x): the int itself, the value of a str of digits (blanks around it
\* allowed), Raise (TypeError, ValueError) for everything else
PyInt(x) ==
    CASE x.k = "int" -> x
      [] x.k = "str" -> IF AllDigits(Strip(x.s)) THEN MkInt(DigitsValue(Strip(x.s))) ELSE Raise
      [] OTHER -> Raise

-----------------------------------------------------------------------------
(* find_model_from_trpc                                                    *)

\* the string literals of the source, as sequences of characters
s_model == <<"m", "o", "d", "e", "l">>
s_getById == <<"g", "e", "t", "B", "y", "I", "d">>
s_Model == <<"M", "o", "d", "e", "l">>
s_AUTOV2 == <<"A", "U", "T", "O", "V", "2">>
s_bar == <<" ", "|", " ">>
s_quot == <<"&", "q", "u", "o", "t", ";">>
s_null == <<"n", "u", "l", "l">>
s_next_data_id == <<"i", "d", "=", "\"", "_", "_", "N", "E", "X", "T", "_", "D", "A", "T", "A", "_", "_", "\"">>
Quote == <<"\"">>

\* the literals of the patterns of extract_ids_from_url
IdPattern ==
    [ models |-> <<"/", "m", "o", "d", "e", "l", "s", "/">>,
      modelVersionId |-> <<"m", "o", "d", "e", "l", "V", "e", "r", "s", "i", "o", "n", "I", "d", "=">> ]

\* the literals of the pattern of fetch_real_filename, in upper case
NameMark ==
    [ FILENAME |-> <<"F", "I", "L", "E", "N", "A", "M", "E">>,
      UTF8 |-> <<"U", "T", "F", "-", "8", "'", "'">> ]

\* the labels and separators of build_usage_tips and of the trigger words
Fmt ==
    [ clip |-> <<"C", "L", "I", "P", " ", "S", "K", "I", "P", ":", " ">>,
      strength |-> <<"S", "T", "R", "E", "N", "G", "T", "H", ":", " ">>,
      min |-> <<"m", "i", "n", " ">>,
      max |-> <<"m", "a", "x", " ">>,
      comma |-> <<",", " ">> ]

\* what extract_preview_image_url looks for in src and class
ImageMark ==
    [ civitai |-> <<"i", "m", "a", "g", "e", ".", "c", "i", "v", "i", "t", "a", "i", ".", "c", "o", "m">>,
      EdgeImage |-> <<"E", "d", "g", "e", "I", "m", "a", "g", "e", "_", "i", "m", "a", "g", "e", "_", "_">> ]

\* next_data["props"]["pageProps"]["trpcState"]["json"]["queries"]; Raise when a
\* subscript fails, which the except clause turns into return None
QueriesOf(nd) ==
    LET a == Subscript(nd, "props")
        b == IF Raised(a) THEN Raise ELSE Subscript(a, "pageProps")
        c == IF Raised(b) THEN Raise ELSE Subscript(b, "trpcState")
        d == IF Raised(c) THEN Raise ELSE Subscript(c, "json")
    IN  IF Raised(d) THEN Raise ELSE Subscript(d, "queries")

\* the test of the if statement on the first element of queryKey
IsGetByIdKey(first) ==
    /\ IsList(first)
    /\ Len(first.items) >= 2
    /\ PyEq(first.items[1], MkStr(s_model))
    /\ PyEq(first.items[2], MkStr(s_getById))

\* (a variant of MatchesTarget that drops "model_id is None")
MatchesIgnoringNone(data, mid) == PyEq(Get(data, "id"), mid)

\* model_id is None or data.get("id") == model_id
MatchesTarget(data, mid) == IsNone(mid) \/ PyEq(Get(data, "id"), mid)

\* (a variant of NextCandidate that keeps the first candidate seen)
KeepFirstCandidate(candidate, data) == IF IsNone(candidate) THEN data ELSE candidate

\* candidate = data
NextCandidate(candidate, data) == data

\* the for loop over queries, from its i-th element on, with the candidate
\* kept so far; the value the function returns, or Raise
RECURSIVE ScanQueries(_, _, _, _)
ScanQueries(qs, i, mid, candidate) ==
    IF i > Len(qs) THEN candidate
    ELSE LET q == qs[i]
             key == Get(q, "queryKey")
             state == GetOr(q, "state", EmptyDict)
             data == Get(state, "data")
         IN  IF ~IsDict(q) THEN Raise                 \* q.get: AttributeError
             ELSE IF ~IsList(key) \/ key.items = <<>> THEN ScanQueries(qs, i + 1, mid, candidate)
             ELSE IF ~IsGetByIdKey(key.items[1]) THEN ScanQueries(qs, i + 1, mid, candidate)
             ELSE IF ~IsDict(state) THEN Raise        \* .get("data"): AttributeError
             ELSE IF ~IsDict(data) THEN ScanQueries(qs, i + 1, mid, candidate)
             ELSE IF MatchesTarget(data, mid) THEN data
             ELSE ScanQueries(qs, i + 1, mid, NextCandidate(candidate, data))

\* what "for q in queries" iterates over: the elements of a list; a str or a
\* dict yields its characters or its keys, which are str; anything else is
\* not iterable (Raise: TypeError)
IterOf(x) ==
    CASE x.k = "list" -> x
      [] x.k = "str" -> MkList([i \in 1..Len(x.s) |-> MkStr(<<x.s[i]>>)])
      [] x.k = "dict" -> IF DOMAIN x.d = {} THEN MkList(<<>>) ELSE MkList(<<MkStr(<<"k">>)>>)
      [] OTHER -> Raise

find_model_from_trpc(nd, mid) ==
    LET queries == QueriesOf(nd)
        it == IterOf(queries)
    IN  IF Raised(queries) THEN None
        ELSE IF Raised(it) THEN Raise
        ELSE ScanQueries(it.items, 1, mid, None)

-----------------------------------------------------------------------------
(* choose_model_version                                                    *)

\* int(v.get("id")) == version_id, False where the try block raises
IdConvertsTo(v, vid) ==
    /\ IsDict(v)
    /\ ~Raised(PyInt(Get(v, "id")))
    /\ PyEq(PyInt(Get(v, "id")), vid)

\* the for loop over versions from the i-th element on: the first version
\* whose id converts to version_id, None when the loop ends without one
RECURSIVE FirstWithId(_, _, _)
FirstWithId(versions, i, vid) ==
    IF i > Len(versions) THEN None
    ELSE IF IdConvertsTo(versions[i], vid) THEN versions[i]
    ELSE FirstWithId(versions, i + 1, vid)

\* _published_ts(v) for a dict v
_published_ts(v) == StrOf(Or(Get(v, "publishedAt"), MkStr(<<>>)))

\* (a variant of InsertDescending that puts x in front of the elements with
\* an equal key, as reversing an ascending sort does)
InsertBeforeEqual(sorted, x) ==
    LET n == Cardinality({ i \in 1..Len(sorted) :
                             StrLess(_published_ts(x), _published_ts(sorted[i])) })
    IN  SubSeq(sorted, 1, n) \o <<x>> \o SubSeq(sorted, n + 1, Len(sorted))

\* where sorted(..., reverse=True) puts x among the elements sorted so far:
\* behind every element whose key is greater or equal, so that equal keys keep
\* their original order
InsertDescending(sorted, x) ==
    LET n == Cardinality({ i \in 1..Len(sorted) :
                             ~StrLess(_published_ts(sorted[i]), _published_ts(x)) })
    IN  SubSeq(sorted, 1, n) \o <<x>> \o SubSeq(sorted, n + 1, Len(sorted))

\* sorted(versions, key=_published_ts, reverse=True), of the first n versions
RECURSIVE SortedDescending(_, _)
SortedDescending(versions, n) ==
    IF n = 0 THEN <<>>
    ELSE InsertDescending(SortedDescending(versions, n - 1), versions[n])

choose_model_version(md, vid) ==
    LET versions == Get(md, "modelVersions")
        hit == IF IsNone(vid) THEN None ELSE FirstWithId(versions.items, 1, vid)
    IN  IF ~IsList(versions) \/ versions.items = <<>> THEN None
        ELSE IF ~IsNone(hit) THEN hit
        ELSE IF \E i \in 1..Len(versions.items) : ~IsDict(versions.items[i])
             THEN Raise                      \* v.get in _published_ts: AttributeError
        ELSE SortedDescending(versions.items, Len(versions.items))[1]

-----------------------------------------------------------------------------
(* fetch_real_filename                                                     *)

IsHex(c) ==
    \/ IsDigit(c)
    \/ (OrdMap[c] >= OrdMap["A"] /\ OrdMap[c] <= OrdMap["F"])
    \/ (OrdMap[c] >= OrdMap["a"] /\ OrdMap[c] <= OrdMap["f"])

HexValue(c) ==
    IF IsDigit(c) THEN OrdMap[c] - OrdMap["0"]
    ELSE IF OrdMap[c] >= OrdMap["a"] THEN OrdMap[c] - OrdMap["a"] + 10
    ELSE OrdMap[c] - OrdMap["A"] + 10

\* urllib.parse.unquote: %XX becomes the character with that code; an escape
\* outside the printable ASCII range is left as it stands
RECURSIVE Unquote(_)
Unquote(s) ==
    IF s = <<>> THEN <<>>
    ELSE IF s[1] = "%" /\ Len(s) >= 3 /\ IsHex(s[2]) /\ IsHex(s[3])
              /\ 16 * HexValue(s[2]) + HexValue(s[3]) \in 32..126
         THEN <<Ascii[16 * HexValue(s[2]) + HexValue(s[3]) - 31]>>
                  \o Unquote(SubSeq(s, 4, Len(s)))
    ELSE <<s[1]>> \o Unquote(Tail(s))

\* the longest run of characters other than '"' and ';' that starts at q:
\* what ([^";]+) matches there
RECURSIVE NameRun(_, _)
NameRun(cd, q) ==
    IF q > Len(cd) \/ cd[q] = "\"" \/ cd[q] = ";" THEN <<>>
    ELSE <<cd[q]>> \o NameRun(cd, q + 1)

\* group 1 of filename\*?=(?:UTF-8'')?"?([^";]+)"? matched at position i with
\* re.IGNORECASE, <<>> when the pattern does not match there
FilenameAt(cd, i) ==
    LET n == Len(cd)
        hasName == i + 7 <= n /\ Upper(SubSeq(cd, i, i + 7)) = NameMark.FILENAME
        j1 == IF i + 8 <= n /\ cd[i + 8] = "*" THEN i + 9 ELSE i + 8
        hasEq == j1 <= n /\ cd[j1] = "="
        j2 == j1 + 1
        hasUtf == j2 + 6 <= n /\ Upper(SubSeq(cd, j2, j2 + 6)) = NameMark.UTF8
        GroupFrom(k) == NameRun(cd, IF k <= n /\ cd[k] = "\"" THEN k + 1 ELSE k)
    IN  IF ~(hasName /\ hasEq) THEN <<>>
        ELSE IF hasUtf /\ GroupFrom(j2 + 7) # <<>> THEN GroupFrom(j2 + 7)
        ELSE GroupFrom(j2)

\* the value returned for the response resp of the HEAD request: Raise for a
\* request that failed, else the dict of the response headers
fetch_real_filename(resp) ==
    IF Raised(resp) THEN None
    ELSE LET cd == Or(Get(resp, "Content-Disposition"), Get(resp, "content-disposition"))
             hits == { i \in 1..Len(cd.s) : FilenameAt(cd.s, i) # <<>> }
             first == CHOOSE i \in hits : \A j \in hits : i <= j
         IN  IF ~Truthy(cd) THEN None
             ELSE IF hits = {} THEN None
             ELSE MkStr(Unquote(Strip(FilenameAt(cd.s, first))))

-----------------------------------------------------------------------------
(* build_usage_tips and extract_fields                                     *)

TARGET_FIELDS ==
    <<"Type", "Published", "Base Model", "Usage Tips", "Trigger Words", "Hash", "File Name">>

\* sep.join(parts) for a sequence of str texts
RECURSIVE Join(_, _)
Join(parts, sep) ==
    IF parts = <<>> THEN <<>>
    ELSE IF Len(parts) = 1 THEN parts[1]
    ELSE parts[1] \o sep \o Join(Tail(parts), sep)

\* the result dict with every field ""
EmptyFields == [f \in { TARGET_FIELDS[i] : i \in 1..Len(TARGET_FIELDS) } |-> <<>>]

\* build_usage_tips(version): the str returned, or Raise when settings is no
\* dict
build_usage_tips(version) ==
    LET clip_skip == Get(version, "clipSkip")
        settings == Or(Get(version, "settings"), EmptyDict)
        strength == Get(settings, "strength")
        min_s == Get(settings, "minStrength")
        max_s == Get(settings, "maxStrength")
        extra == (IF IsNone(min_s) THEN <<>> ELSE <<Fmt.min \o StrOf(min_s)>>)
                 \o (IF IsNone(max_s) THEN <<>> ELSE <<Fmt.max \o StrOf(max_s)>>)
        clipPart == IF IsNone(clip_skip) THEN <<>> ELSE <<Fmt.clip \o StrOf(clip_skip)>>
        strengthPart ==
            IF IsNone(strength) THEN <<>>
            ELSE IF extra # <<>>
                 THEN <<Fmt.strength \o StrOf(strength) \o <<" ", "(">>
                          \o Join(extra, Fmt.comma) \o <<")">> >>
            ELSE <<Fmt.strength \o StrOf(strength)>>
    IN  IF ~IsDict(settings) THEN Raise             \* settings.get: AttributeError
        ELSE MkStr(Join(clipPart \o strengthPart, s_bar))

\* [str(w).strip() for w in trained if str(w).strip()]
RECURSIVE StrippedWords(_)
StrippedWords(trained) ==
    IF trained = <<>> THEN <<>>
    ELSE (IF Strip(StrOf(trained[1])) # <<>> THEN <<Strip(StrOf(trained[1]))>> ELSE <<>>)
             \o StrippedWords(Tail(trained))

TriggerWords(version) ==
    LET trained == Or(Get(version, "trainedWords"), MkList(<<>>))
    IN  IF IsList(trained) THEN Join(StrippedWords(trained.items), Fmt.comma)
        ELSE Strip(StrOf(trained))

\* f.get("type") == "Model" or f.get("type") == "model"
IsModelFile(f) == PyEq(Get(f, "type"), MkStr(s_Model)) \/ PyEq(Get(f, "type"), MkStr(s_model))

preferred_order ==
    << s_AUTOV2, <<"A", "u", "t", "o", "V", "2">>, <<"S", "H", "A", "2", "5", "6">>,
       <<"S", "H", "A", "1">>, <<"C", "R", "C", "3", "2">> >>

\* ht == t.upper() and h.get("hash"), for a dict h
HashRecordMatches(h, t) ==
    /\ Upper(StrOf(Or(Get(h, "type"), MkStr(<<>>)))) = Upper(t)
    /\ Truthy(Get(h, "hash"))

\* the inner loop "for h in raw_hashes" for the type t: chosen_hash after it,
\* "" when no record made the loop break
ChosenHashFor(raw, t) ==
    LET hits == { i \in 1..Len(raw) : IsDict(raw[i]) /\ HashRecordMatches(raw[i], t) }
        first == CHOOSE i \in hits : \A j \in hits : i <= j
    IN  IF hits = {} THEN <<>> ELSE Strip(StrOf(Get(raw[first], "hash")))

\* the outer loop "for t in preferred_order" from the n-th type on: the text
\* of hash_value
RECURSIVE HashFromList(_, _)
HashFromList(raw, n) ==
    IF n > Len(preferred_order) THEN <<>>
    ELSE IF ChosenHashFor(raw, preferred_order[n]) # <<>>
         THEN Upper(preferred_order[n]) \o s_bar \o ChosenHashFor(raw, preferred_order[n])
    ELSE HashFromList(raw, n + 1)

\* hash_value for the model file f
HashOf(f) ==
    LET raw_hashes == Or(Get(f, "hashes"), MkList(<<>>))
        auto_v2 == Strip(StrOf(Or(Or(Get(raw_hashes, "AutoV2"), Get(raw_hashes, "AUTOV2")),
                                  MkStr(<<>>))))
    IN  IF IsDict(raw_hashes)
        THEN IF auto_v2 # <<>> THEN s_AUTOV2 \o s_bar \o auto_v2 ELSE <<>>
        ELSE IF IsList(raw_hashes) THEN HashFromList(raw_hashes.items, 1)
        ELSE <<>>

\* if file_url: whether the real file name is asked for
Probes(f) == Truthy(Get(f, "url"))

\* file_name for the model file f, resp being the response to the HEAD request
FileNameOf(f, resp) ==
    LET real_name == fetch_real_filename(resp)
    IN  IF Probes(f)
        THEN IF Truthy(real_name) THEN real_name.s
             ELSE Strip(StrOf(Or(Get(f, "name"), MkStr(<<>>))))
        ELSE <<>>

\* (a variant of ScanFiles that takes the hash from the file name)
RECURSIVE ScanFilesHashingName(_, _, _)
ScanFilesHashingName(files, i, resp) ==
    IF i > Len(files) THEN [k |-> "ok", hash |-> <<>>, file_name |-> <<>>, probed |-> <<>>]
    ELSE IF ~IsDict(files[i]) THEN Raise
    ELSE IF IsModelFile(files[i])
         THEN [k |-> "ok",
               hash |-> FileNameOf(files[i], resp),
               file_name |-> FileNameOf(files[i], resp),
               probed |-> IF Probes(files[i]) THEN <<Get(files[i], "url")>> ELSE <<>>]
    ELSE ScanFilesHashingName(files, i + 1, resp)

\* the loop "for f in files" from the i-th file on: the hash, the file name
\* and the URLs probed, or Raise when a file in front of the model file is no
\* dict
RECURSIVE ScanFiles(_, _, _)
ScanFiles(files, i, resp) ==
    IF i > Len(files) THEN [k |-> "ok", hash |-> <<>>, file_name |-> <<>>, probed |-> <<>>]
    ELSE IF ~IsDict(files[i]) THEN Raise            \* f.get: AttributeError
    ELSE IF IsModelFile(files[i])
         THEN [k |-> "ok",
               hash |-> HashOf(files[i]),
               file_name |-> FileNameOf(files[i], resp),
               probed |-> IF Probes(files[i]) THEN <<Get(files[i], "url")>> ELSE <<>>]
    ELSE ScanFiles(files, i + 1, resp)

\* extract_fields(model_data, version_data) when a HEAD request is answered
\* by resp: [result, probed], or Raise
extract_fields(md, vd, resp) ==
    LET withType == [EmptyFields EXCEPT !["Type"] =
                        Strip(StrOf(Or(Get(md, "type"), MkStr(<<>>))))]
        published == Or(Or(Get(vd, "publishedAt"), Get(md, "publishedAt")), MkStr(<<>>))
        base_model == Or(Or(Get(vd, "baseModel"), Get(vd, "baseModelType")), MkStr(<<>>))
        tips == build_usage_tips(vd)
        files == IterOf(Or(Get(vd, "files"), MkList(<<>>)))
        scan == IF Raised(files) THEN Raise ELSE ScanFiles(files.items, 1, resp)
    IN  IF ~Truthy(md) THEN [k |-> "ok", result |-> EmptyFields, probed |-> <<>>]
        ELSE IF ~Truthy(vd) THEN [k |-> "ok", result |-> withType, probed |-> <<>>]
        ELSE IF Raised(tips) THEN Raise
        ELSE IF Raised(scan) THEN Raise
        ELSE [k |-> "ok",
              result |-> [withType EXCEPT
                            !["Published"] = Strip(StrOf(published)),
                            !["Base Model"] = Strip(StrOf(base_model)),
                            !["Trigger Words"] = TriggerWords(vd),
                            !["Usage Tips"] = tips.s,
                            !["Hash"] = scan.hash,
                            !["File Name"] = scan.file_name],
              probed |-> scan.probed]

-----------------------------------------------------------------------------
(* Inputs of find_model_from_trpc                                          *)

\* the longest query list drawn
MaxQueries == 3

\* the texts the sample inputs are made of
Sample ==
    [ getAll |-> <<"g", "e", "t", "A", "l", "l">>,
      other |-> <<"o", "t", "h", "e", "r">>,
      LORA |-> <<"L", "O", "R", "A">>,
      Checkpoint |-> <<"C", "h", "e", "c", "k", "p", "o", "i", "n", "t">>,
      x |-> <<"x">>,
      d1 |-> <<"2", "0", "2", "3", "-", "0", "1", "-", "0", "1">>,
      d2 |-> <<"2", "0", "2", "4", "-", "0", "5", "-", "0", "5">>,
      d3 |-> <<"2", "0", "2", "3", "-", "1", "2", "-", "3", "1">>,
      d4 |-> <<"9", "/", "1", "/", "2", "0", "2", "0">>,
      two |-> <<"2">>,
      v2 |-> <<"v", "2">>,
      a |-> <<"a", ".", "s", "t">>,
      b |-> <<"b", ".", "s", "t">>,
      c |-> <<"c", ".", "s", "t">>,
      d |-> <<"d", ".", "y", "a", "m", "l">>,
      pad |-> <<" ", "e", ".", "s", "t", " ">>,
      u1 |-> <<"h", "t", "t", "p", "s", ":", "/", "/", "d", "/", "1">>,
      Config |-> <<"C", "o", "n", "f", "i", "g">>,
      MODEL |-> <<"M", "O", "D", "E", "L">>,
      sha1 |-> <<"s", "h", "a", "1">>,
      BLAKE3 |-> <<"B", "L", "A", "K", "E", "3">>,
      y |-> <<"y">>,
      sp |-> <<" ">>,
      ypad |-> <<" ", "y", " ">>,
      w1 |-> <<"w", "1">>,
      SDXL |-> <<"S", "D", "X", "L">>,
      AutoV2 |-> <<"A", "u", "t", "o", "V", "2">>,
      SHA256 |-> <<"S", "H", "A", "2", "5", "6">>,
      CRC32 |-> <<"C", "R", "C", "3", "2">>,
      cd1 |-> <<"a", "t", "t", "a", "c", "h", "m", "e", "n", "t", ";", " ", "f", "i", "l", "e", "n", "a", "m", "e", "=", "\"", "r", ".", "s", "t", "\"">>,
      cd2 |-> <<"a", "t", "t", "a", "c", "h", "m", "e", "n", "t", ";", " ", "f", "i", "l", "e", "n", "a", "m", "e", "*", "=", "U", "T", "F", "-", "8", "'", "'", "r", "%", "2", "0", "s", ".", "s", "t">>,
      cd3 |-> <<"i", "n", "l", "i", "n", "e">>,
      cd4 |-> <<"a", "t", "t", "a", "c", "h", "m", "e", "n", "t", ";", " ", "f", "i", "l", "e", "n", "a", "m", "e", "=", "\"", " ", "\"">> ]

PathKeys == <<"props", "pageProps", "trpcState", "json", "queries">>

\* a tree that holds the first n keys of the path and an empty dict below
RECURSIVE PathPrefix(_, _)
PathPrefix(i, n) == IF i > n THEN EmptyDict ELSE MkDict(PathKeys[i] :> PathPrefix(i + 1, n))

\* the embedded state whose trpcState.json.queries is the value qs
RECURSIVE StateAround(_, _)
StateAround(i, qs) ==
    IF i > Len(PathKeys) THEN qs ELSE MkDict(PathKeys[i] :> StateAround(i + 1, qs))

NextDataOf(qs) == StateAround(1, qs)

\* queryKey values that name model.getById
GetByIdKeys ==
    { MkList(<<MkList(<<MkStr(s_model), MkStr(s_getById)>>)>>),
      MkList(<<MkList(<<MkStr(s_model), MkStr(s_getById), MkStr(Sample.x)>>), MkDict("input" :> EmptyDict)>>) }

\* queryKey values that do not: no list, empty, first element no list, too
\* short, another operation
ForeignKeys ==
    { MkStr(s_model),
      MkList(<<>>),
      MkList(<<MkStr(s_model), MkStr(s_getById)>>),
      MkList(<<MkList(<<MkStr(s_model)>>)>>),
      MkList(<<MkList(<<MkStr(s_model), MkStr(Sample.getAll)>>)>>),
      MkList(<<MkList(<<MkStr(Sample.other), MkStr(s_getById)>>)>>),
      MkList(<<MkList(<<MkInt(1), MkStr(s_getById)>>)>>) }

\* model records that differ in id and in type
ModelRecords ==
    { MkDict([id |-> MkInt(i), type |-> MkStr(t)]) : i \in {7, 9}, t \in {Sample.LORA} }
    \cup { MkDict([id |-> MkInt(7), type |-> MkStr(Sample.Checkpoint)]),
           MkDict([type |-> MkStr(Sample.Checkpoint)]) }

\* the record of every descriptor that is not a model.getById query
ForeignRecord == MkDict([id |-> MkInt(9), type |-> MkStr(Sample.Checkpoint)])

\* what a descriptor holds under "state": nothing, a dict without data, a
\* payload that is no keyed record, a model record
States ==
    { EmptyDict, MkDict("data" :> MkStr(Sample.x)), MkDict("data" :> None) }
    \cup { MkDict("data" :> m) : m \in ModelRecords }

Descriptors ==
    { MkDict([queryKey |-> key, state |-> st]) : key \in GetByIdKeys, st \in States }
    \cup { MkDict("queryKey" :> key) : key \in GetByIdKeys }
    \cup { MkDict([queryKey |-> key, state |-> MkDict("data" :> ForeignRecord)]) :
             key \in ForeignKeys }
    \cup { MkDict("state" :> MkDict("data" :> ForeignRecord)) }

SeqsUpTo(S, n) == UNION { [1..m -> S] : m \in 0..n }

\* the embedded states find_model_from_trpc is given: every query list of
\* descriptors, and the trees that lack a key of the path
ResolverStates ==
    { NextDataOf(MkList(qs)) : qs \in SeqsUpTo(Descriptors, MaxQueries) }
    \cup { PathPrefix(1, n) : n \in 0..(Len(PathKeys) - 1) }
    \cup { MkList(<<>>), MkDict("props" :> MkList(<<>>)) }

-----------------------------------------------------------------------------
(* Inputs of choose_model_version                                          *)

\* the longest version list drawn
MaxVersions == 3

\* ids as the page stores them: numbers, a number as text, text that is no
\* number
StoredIds == { MkInt(1), MkInt(2), MkStr(Sample.two), MkStr(Sample.v2) }

\* the versions of a page; of the dates, Sample.d4 is older than the others
\* and lexically greater
VersionRecords ==
    { MkDict([id |-> i, publishedAt |-> d]) : i \in StoredIds,
        d \in { MkStr(Sample.d2), MkStr(Sample.d3), MkStr(Sample.d4) } }
    \cup { MkDict("id" :> i) : i \in StoredIds }
    \cup { MkDict([id |-> MkInt(1), publishedAt |-> MkStr(Sample.d1)]),
           MkDict([id |-> MkInt(2), publishedAt |-> MkStr(<<>>)]),
           MkDict([id |-> MkInt(3), publishedAt |-> None]),
           MkDict("publishedAt" :> MkStr(Sample.d2)) }

\* the model records choose_model_version is given
SelectorInputs ==
    { MkDict([id |-> MkInt(7), modelVersions |-> MkList(vs)]) :
        vs \in SeqsUpTo(VersionRecords, MaxVersions) }
    \cup { MkDict("id" :> MkInt(7)),
           MkDict([id |-> MkInt(7), modelVersions |-> None]),
           MkDict([id |-> MkInt(7), modelVersions |-> MkDict("id" :> MkInt(1))]) }

-----------------------------------------------------------------------------
(* Inputs of extract_fields                                                *)

\* the longest file list and the longest hash list drawn
MaxFiles == 3
MaxHashes == 3

\* what a HEAD request can come back with: a failure of the request (Raise),
\* headers without Content-Disposition, headers with one
ProbeResponses ==
    { Raise, EmptyDict, MkDict("content-disposition" :> MkStr(Sample.cd1)) }
    \cup { MkDict("Content-Disposition" :> MkStr(cd)) : cd \in {Sample.cd1, Sample.cd2, Sample.cd3, Sample.cd4} }

\* the file records drawn: each type with the stored name and the hash value
\* its files carry, with and without url and hashes; and records that lack
\* name, url or type
FileRecords ==
    { MkDict([type |-> MkStr(t[1]), name |-> MkStr(t[2])]
             @@ (IF u THEN "url" :> MkStr(Sample.u1) ELSE <<>>)
             @@ (IF h THEN "hashes" :> MkList(<<MkDict([type |-> MkStr(Sample.SHA256),
                                                       hash |-> MkStr(t[3])])>>)
                 ELSE <<>>)) :
        t \in { <<s_Model, Sample.a, <<"1">>>>, <<s_model, Sample.b, <<"2">>>>,
                <<Sample.MODEL, Sample.c, <<"3">>>>, <<Sample.Config, Sample.d, <<"4">>>> },
        u \in BOOLEAN, h \in BOOLEAN }
    \cup { MkDict([type |-> MkStr(s_Model), name |-> MkStr(Sample.pad), url |-> MkStr(Sample.u1)]),
           MkDict([type |-> MkStr(s_Model), name |-> MkStr(Sample.pad)]),
           MkDict([type |-> MkStr(s_model), url |-> MkStr(Sample.u1)]),
           MkDict("name" :> MkStr(Sample.d)) }

\* the model record beside every version drawn
ModelForFields ==
    MkDict([id |-> MkInt(7), type |-> MkStr(Sample.LORA \o <<" ">>), publishedAt |-> MkStr(Sample.d1)])

\* the fields of a version other than files
VersionShell ==
    [id |-> MkInt(1), publishedAt |-> MkStr(Sample.d2), baseModel |-> MkStr(Sample.SDXL),
     trainedWords |-> MkList(<<MkStr(<<>>), MkStr(<<" ", "a", " ">>), MkStr(<<"b">>)>>),
     clipSkip |-> MkInt(2),
     settings |-> MkDict([strength |-> MkInt(1), maxStrength |-> MkInt(2)])]

\* the versions extract_fields is given in SpecFields: every file list, and
\* versions that lack fields
FieldInputs ==
    { MkDict(VersionShell @@ ("files" :> MkList(fs))) : fs \in SeqsUpTo(FileRecords, MaxFiles) }
    \cup { MkDict(VersionShell),
           MkDict([id |-> MkInt(1), baseModelType |-> MkStr(Sample.SDXL), trainedWords |-> MkStr(Sample.w1),
                   settings |-> MkDict("strength" :> MkInt(1))]),
           MkDict([id |-> MkInt(1), clipSkip |-> MkInt(1), files |-> None]) }

\* what a model file holds under "hashes": lists of typed hash records (types
\* of the preference order in several cases and a type outside it, hashes that
\* are empty, blank, plain and padded), keyed mappings, nothing
HashInputs ==
    LET HashRecords ==
            { MkDict([type |-> MkStr(t), hash |-> MkStr(h)]) :
                t \in {Sample.AutoV2, Sample.SHA256, Sample.sha1, Sample.CRC32, Sample.BLAKE3},
                h \in { <<>>, Sample.sp, Sample.x, Sample.ypad } }
    IN  { MkList(hs) : hs \in SeqsUpTo(HashRecords, MaxHashes) }
        \cup { MkDict("AutoV2" :> MkStr(Sample.x)), MkDict("AUTOV2" :> MkStr(Sample.ypad)),
               MkDict([AutoV2 |-> MkStr(<<>>), AUTOV2 |-> MkStr(Sample.y)]),
               MkDict("SHA256" :> MkStr(Sample.x)), None }

\* the versions extract_fields is given in SpecHash: one model file with the
\* hashes h
VersionWithHashes(h) ==
    MkDict([id |-> MkInt(1),
            files |-> MkList(<<MkDict([type |-> MkStr(s_Model), name |-> MkStr(Sample.a),
                                       hashes |-> h])>>)])

-----------------------------------------------------------------------------
(* extract_ids_from_url                                                    *)

\* the longest run of digits of s that starts at position i (\d+, greedy)
RECURSIVE DigitRun(_, _)
DigitRun(s, i) ==
    IF i <= Len(s) /\ IsDigit(s[i]) THEN <<s[i]>> \o DigitRun(s, i + 1) ELSE <<>>

\* the literal lit stands in s at position i
LiteralAt(s, i, lit) == i + Len(lit) - 1 <= Len(s) /\ SubSeq(s, i, i + Len(lit) - 1) = lit

\* re.search(r"/models/(\d+)", url): the positions where the pattern matches
ModelIdMatches(s) ==
    { i \in 1..Len(s) : LiteralAt(s, i, IdPattern.models) /\ DigitRun(s, i + Len(IdPattern.models)) # <<>> }

\* re.search(r"[?&]modelVersionId=(\d+)", url): the positions where the
\* pattern matches
VersionIdMatches(s) ==
    { i \in 1..Len(s) : /\ s[i] \in {"?", "&"}
                        /\ LiteralAt(s, i + 1, IdPattern.modelVersionId)
                        /\ DigitRun(s, i + 1 + Len(IdPattern.modelVersionId)) # <<>> }

\* int(m.group(1)) if m else None, m being the leftmost match
GroupOfFirst(s, matches, skip) ==
    IF matches = {} THEN None
    ELSE LET first == CHOOSE i \in matches : \A j \in matches : i <= j
         IN  MkInt(DigitsValue(DigitRun(s, first + skip)))

extract_ids_from_url(u) ==
    [model_id |-> GroupOfFirst(u, ModelIdMatches(u), Len(IdPattern.models)),
     version_id |-> GroupOfFirst(u, VersionIdMatches(u), 1 + Len(IdPattern.modelVersionId))]

-----------------------------------------------------------------------------
(* extract_next_data                                                       *)

(* A page is a sequence of elements.  A script element carries the text of  *)
(* its attributes and its body; the body is held as the sequence of its     *)
(* lexemes, each one the characters it is written with: a punctuation mark, *)
(* a double quote, the entity &quot;, a run of blanks, a run of other        *)
(* characters.  An img element carries its class and src attributes.        *)

\* the keys of the mappings the embedded state and the API answer are read
\* by, as they are written in JSON text
KeySpelling ==
    [ props |-> <<"p", "r", "o", "p", "s">>,
      pageProps |-> <<"p", "a", "g", "e", "P", "r", "o", "p", "s">>,
      trpcState |-> <<"t", "r", "p", "c", "S", "t", "a", "t", "e">>,
      json |-> <<"j", "s", "o", "n">>,
      queries |-> <<"q", "u", "e", "r", "i", "e", "s">>,
      queryKey |-> <<"q", "u", "e", "r", "y", "K", "e", "y">>,
      state |-> <<"s", "t", "a", "t", "e">>,
      data |-> <<"d", "a", "t", "a">>,
      id |-> <<"i", "d">>,
      type |-> <<"t", "y", "p", "e">>,
      modelVersions |-> <<"m", "o", "d", "e", "l", "V", "e", "r", "s", "i", "o", "n", "s">>,
      publishedAt |-> <<"p", "u", "b", "l", "i", "s", "h", "e", "d", "A", "t">>,
      baseModel |-> <<"b", "a", "s", "e", "M", "o", "d", "e", "l">>,
      files |-> <<"f", "i", "l", "e", "s">>,
      name |-> <<"n", "a", "m", "e">>,
      url |-> <<"u", "r", "l">>,
      hashes |-> <<"h", "a", "s", "h", "e", "s">>,
      hash |-> <<"h", "a", "s", "h">>,
      trainedWords |-> <<"t", "r", "a", "i", "n", "e", "d", "W", "o", "r", "d", "s">>,
      clipSkip |-> <<"c", "l", "i", "p", "S", "k", "i", "p">>,
      settings |-> <<"s", "e", "t", "t", "i", "n", "g", "s">>,
      strength |-> <<"s", "t", "r", "e", "n", "g", "t", "h">>,
      images |-> <<"i", "m", "a", "g", "e", "s">>,
      urlSmall |-> <<"u", "r", "l", "S", "m", "a", "l", "l">>,
      urlThumbnail |-> <<"u", "r", "l", "T", "h", "u", "m", "b", "n", "a", "i", "l">>,
      other |-> <<"o", "t", "h", "e", "r">> ]

\* the key a JSON string spells; a string that spells none of KeySpelling is
\* kept under "other"
KeyOf(chars) ==
    IF \E key \in DOMAIN KeySpelling : KeySpelling[key] = chars
    THEN CHOOSE key \in DOMAIN KeySpelling : KeySpelling[key] = chars
    ELSE "other"

IsBlank(lexeme) == lexeme # <<>> /\ \A i \in 1..Len(lexeme) : IsSpace(lexeme[i])

\* raw.strip(), on the lexemes of raw
RECURSIVE StripLexemes(_)
StripLexemes(raw) ==
    IF raw # <<>> /\ IsBlank(Head(raw)) THEN StripLexemes(Tail(raw))
    ELSE IF raw # <<>> /\ IsBlank(raw[Len(raw)])
         THEN StripLexemes(SubSeq(raw, 1, Len(raw) - 1))
    ELSE raw

\* raw.replace("&quot;", '"')
ReplaceQuot(raw) == [i \in 1..Len(raw) |-> IF raw[i] = s_quot THEN Quote ELSE raw[i]]

\* the position of the first lexeme from i on that is no run of blanks
RECURSIVE SkipBlank(_, _)
SkipBlank(raw, i) == IF i <= Len(raw) /\ IsBlank(raw[i]) THEN SkipBlank(raw, i + 1) ELSE i

Failed == [ok |-> FALSE]
Parsed(val, next) == [ok |-> TRUE, val |-> val, next |-> next]

\* the characters of a JSON string whose opening quote is in front of i: all
\* lexemes up to the closing quote
RECURSIVE ParseChars(_, _)
ParseChars(raw, i) ==
    IF i > Len(raw) THEN Failed                        \* unterminated string
    ELSE IF raw[i] = Quote THEN Parsed(<<>>, i + 1)
    ELSE LET rest == ParseChars(raw, i + 1)
         IN  IF rest.ok THEN Parsed(raw[i] \o rest.val, rest.next) ELSE Failed

RECURSIVE ParseValue(_, _)
RECURSIVE ParseMembers(_, _, _)
RECURSIVE ParseElements(_, _, _)

\* the members of a JSON object from i on, members being the ones in front;
\* a key met twice keeps its last value
ParseMembers(raw, i, members) ==
    LET k == SkipBlank(raw, i)
        key == IF k <= Len(raw) /\ raw[k] = Quote THEN ParseChars(raw, k + 1) ELSE Failed
        colon == IF key.ok THEN SkipBlank(raw, key.next) ELSE 0
        value == IF key.ok /\ colon <= Len(raw) /\ raw[colon] = <<":">>
                 THEN ParseValue(raw, colon + 1) ELSE Failed
        after == IF value.ok THEN SkipBlank(raw, value.next) ELSE 0
        sofar == (KeyOf(key.val) :> value.val) @@ members
    IN  IF ~value.ok \/ after > Len(raw) THEN Failed
        ELSE IF raw[after] = <<"}">> THEN Parsed(MkDict(sofar), after + 1)
        ELSE IF raw[after] = <<",">> THEN ParseMembers(raw, after + 1, sofar)
        ELSE Failed

\* the elements of a JSON array from i on, elements being the ones in front
ParseElements(raw, i, elements) ==
    LET value == ParseValue(raw, i)
        after == IF value.ok THEN SkipBlank(raw, value.next) ELSE 0
    IN  IF ~value.ok \/ after > Len(raw) THEN Failed
        ELSE IF raw[after] = <<"]">> THEN Parsed(MkList(Append(elements, value.val)), after + 1)
        ELSE IF raw[after] = <<",">> THEN ParseElements(raw, after + 1, Append(elements, value.val))
        ELSE Failed

\* one JSON value from i on
ParseValue(raw, i) ==
    LET k == SkipBlank(raw, i)
        chars == ParseChars(raw, k + 1)
    IN  IF k > Len(raw) THEN Failed
        ELSE IF raw[k] = <<"{">>
             THEN IF SkipBlank(raw, k + 1) <= Len(raw) /\ raw[SkipBlank(raw, k + 1)] = <<"}">>
                  THEN Parsed(EmptyDict, SkipBlank(raw, k + 1) + 1)
                  ELSE ParseMembers(raw, k + 1, <<>>)
        ELSE IF raw[k] = <<"[">>
             THEN IF SkipBlank(raw, k + 1) <= Len(raw) /\ raw[SkipBlank(raw, k + 1)] = <<"]">>
                  THEN Parsed(MkList(<<>>), SkipBlank(raw, k + 1) + 1)
                  ELSE ParseElements(raw, k + 1, <<>>)
        ELSE IF raw[k] = Quote
             THEN IF chars.ok THEN Parsed(MkStr(chars.val), chars.next) ELSE Failed
        ELSE IF AllDigits(raw[k]) THEN Parsed(MkInt(DigitsValue(raw[k])), k + 1)
        ELSE IF raw[k] = s_null THEN Parsed(None, k + 1)
        ELSE Failed

\* json.loads(raw): the tree, or Raise (JSONDecodeError) when raw is no JSON
\* value or something follows the value
json_loads(raw) ==
    LET value == ParseValue(raw, 1)
    IN  IF value.ok /\ SkipBlank(raw, value.next) > Len(raw) THEN value.val ELSE Raise

\* the script elements the pattern of re.search matches: a tag script whose
\* attribute text holds id="__NEXT_DATA__" after at least one character, in
\* any case (re.IGNORECASE)
IsNextDataScript(el) ==
    /\ el.tag = "script"
    /\ \E i \in 1..(Len(el.attrs) - Len(s_next_data_id)) :
          SubSeq(Upper(el.attrs), i + 1, i + Len(s_next_data_id)) = Upper(s_next_data_id)

\* the tree of the first matching script element, None when there is none,
\* Raise when the second json.loads raises
extract_next_data(page) ==
    LET hits == { i \in 1..Len(page) : IsNextDataScript(page[i]) }
        first == CHOOSE i \in hits : \A j \in hits : i <= j
        raw == StripLexemes(page[first].body)
        tree == json_loads(raw)
    IN  IF hits = {} THEN None
        ELSE IF ~Raised(tree) THEN tree
        ELSE json_loads(ReplaceQuot(raw))

-----------------------------------------------------------------------------
(* extract_preview_image_url                                               *)

\* img.get("src") or ""
SrcOf(img) == StrOf(Or(img.src, MkStr(<<>>)))

\* " ".join(img.get("class") or [])
ClassesOf(img) ==
    LET classes == Or(img.class, MkList(<<>>))
    IN  Join([i \in 1..Len(classes.items) |-> classes.items[i].s], <<" ">>)

\* the first img of the page, in document order, among those numbered in
\* hits; None when hits is empty
FirstSrc(page, hits) ==
    IF hits = {} THEN None
    ELSE MkStr(SrcOf(page[CHOOSE i \in hits : \A j \in hits : i <= j]))

extract_preview_image_url(page) ==
    LET imgs == { i \in 1..Len(page) : page[i].tag = "img" }
        planA == { i \in imgs : /\ Contains(SrcOf(page[i]), ImageMark.civitai)
                                /\ Contains(ClassesOf(page[i]), ImageMark.EdgeImage) }
        planB == { i \in imgs : Contains(SrcOf(page[i]), ImageMark.civitai) }
    IN  IF planA # {} THEN FirstSrc(page, planA) ELSE FirstSrc(page, planB)

-----------------------------------------------------------------------------
(* fetch_preview_image_url_from_api                                        *)

\* the for loop over versions from the i-th element on: the first version
\* whose id converts to version_id, None when there is none
RECURSIVE ChosenVersion(_, _, _)
ChosenVersion(versions, i, vid) ==
    IF i > Len(versions) THEN None
    ELSE IF IdConvertsTo(versions[i], vid) THEN versions[i]
    ELSE ChosenVersion(versions, i + 1, vid)

\* first.get("url") or first.get("urlSmall") or first.get("urlThumbnail"),
\* "if not url: return None", return str(url).strip()
PreviewOfUrl(found) == IF ~Truthy(found) THEN None ELSE MkStr(Strip(StrOf(found)))

\* first = images[0] and what follows, images being chosen.get("images") or []
PreviewOfImages(images) ==
    IF ~Truthy(images) THEN None
    ELSE IF ~IsList(images) THEN Raise                    \* images[0] fails
    ELSE IF ~IsDict(images.items[1]) THEN Raise           \* first.get: AttributeError
    ELSE PreviewOfUrl(Or(Or(Get(images.items[1], "url"), Get(images.items[1], "urlSmall")),
                         Get(images.items[1], "urlThumbnail")))

\* images = chosen.get("images") or [] and what follows
PreviewOfVersion(chosen) ==
    IF ~IsDict(chosen) THEN Raise                         \* chosen.get: AttributeError
    ELSE PreviewOfImages(Or(Get(chosen, "images"), MkList(<<>>)))

\* "if chosen is None: chosen = versions[0]"
ChosenOr(hit, first) == IF IsNone(hit) THEN first ELSE hit

\* "if not versions: return None" and what follows, versions being
\* data.get("modelVersions") or []
PreviewOfVersions(versions, vid) ==
    IF ~Truthy(versions) THEN None
    ELSE IF ~IsList(versions) THEN Raise                  \* the loop or versions[0] fails
    ELSE PreviewOfVersion(ChosenOr(IF IsNone(vid) THEN None
                                   ELSE ChosenVersion(versions.items, 1, vid),
                                   versions.items[1]))

\* what follows data = resp.json(), data being Raise when resp.json() raises
PreviewOfData(data, vid) ==
    IF Raised(data) THEN None
    ELSE IF ~IsDict(data) THEN Raise                      \* data.get: AttributeError
    ELSE PreviewOfVersions(Or(Get(data, "modelVersions"), MkList(<<>>)), vid)

\* the function when the GET request is answered by answer: a failure of the
\* request (requests.get or raise_for_status raises), or a body; the str
\* returned, None, or Raise
ApiPreview(vid, answer) ==
    IF answer.k = "failed" THEN None ELSE PreviewOfData(json_loads(answer.body), vid)

\* whether the function sends its request: "if model_id is None: return None"
\* comes first
AsksApi(mid) == ~IsNone(mid)

fetch_preview_image_url_from_api(mid, vid, answer) ==
    IF AsksApi(mid) THEN ApiPreview(vid, answer) ELSE None

-----------------------------------------------------------------------------
(* Inputs of extract_details_from_url                                      *)

\* the texts the sample pages, URLs and API answers are made of
PageSample ==
    [
      full |-> <<"h", "t", "t", "p", "s", ":", "/", "/", "c", ".", "i", "o", "/", "m", "o", "d", "e", "l", "s", "/", "7", "?", "m", "o", "d", "e", "l", "V", "e", "r", "s", "i", "o", "n", "I", "d", "=", "2">>,
      model |-> <<"h", "t", "t", "p", "s", ":", "/", "/", "c", ".", "i", "o", "/", "m", "o", "d", "e", "l", "s", "/", "7", "/", "x">>,
      plain |-> <<"h", "t", "t", "p", "s", ":", "/", "/", "c", ".", "i", "o", "/", "u", "s", "e", "r", "/", "x">>,
      version |-> <<"h", "t", "t", "p", "s", ":", "/", "/", "c", ".", "i", "o", "/", "m", "o", "d", "e", "l", "s", "/", "?", "a", "=", "1", "&", "m", "o", "d", "e", "l", "V", "e", "r", "s", "i", "o", "n", "I", "d", "=", "1">>,
      std |-> <<" ", "i", "d", "=", "\"", "_", "_", "N", "E", "X", "T", "_", "D", "A", "T", "A", "_", "_", "\"", " ", "t", "y", "p", "e", "=", "\"", "a", "p", "p", "l", "i", "c", "a", "t", "i", "o", "n", "/", "j", "s", "o", "n", "\"">>,
      upper |-> <<" ", "I", "D", "=", "\"", "_", "_", "n", "e", "x", "t", "_", "d", "a", "t", "a", "_", "_", "\"">>,
      foreign |-> <<" ", "i", "d", "=", "\"", "o", "t", "h", "e", "r", "\"">>,
      edge |-> <<"h", "t", "t", "p", "s", ":", "/", "/", "i", "m", "a", "g", "e", ".", "c", "i", "v", "i", "t", "a", "i", ".", "c", "o", "m", "/", "e", ".", "p", "n", "g">>,
      first |-> <<"h", "t", "t", "p", "s", ":", "/", "/", "i", "m", "a", "g", "e", ".", "c", "i", "v", "i", "t", "a", "i", ".", "c", "o", "m", "/", "f", ".", "p", "n", "g">>,
      api |-> <<" ", "h", "t", "t", "p", "s", ":", "/", "/", "i", "m", "a", "g", "e", ".", "c", "i", "v", "i", "t", "a", "i", ".", "c", "o", "m", "/", "a", ".", "p", "n", "g", " ">>,
      small |-> <<"h", "t", "t", "p", "s", ":", "/", "/", "i", "m", "a", "g", "e", ".", "c", "i", "v", "i", "t", "a", "i", ".", "c", "o", "m", "/", "s", ".", "p", "n", "g">>,
      host |-> <<"h", "t", "t", "p", "s", ":", "/", "/", "c", ".", "i", "o", "/", "l", "o", "g", "o", ".", "p", "n", "g">>,
      cls |-> <<"E", "d", "g", "e", "I", "m", "a", "g", "e", "_", "i", "m", "a", "g", "e", "_", "_", "x", "1">>,
      mt |-> <<"m", "t">>,
      bad |-> <<"b", "a", "d">>,
      page |-> <<"<", "h", "t", "m", "l", ">">> ]

\* the URLs the pipeline is run for: with both ids, with the model id, with
\* neither, with the version id only
Urls == { PageSample.full, PageSample.model, PageSample.plain, PageSample.version }

\* the lexemes of the JSON text of a tree: json.dumps without blanks
RECURSIVE JsonText(_)
RECURSIVE ItemsText(_, _)
RECURSIVE MembersText(_, _)

ItemsText(items, i) ==
    IF i > Len(items) THEN <<>>
    ELSE (IF i > 1 THEN << <<",">> >> ELSE <<>>) \o JsonText(items[i]) \o ItemsText(items, i + 1)

MembersText(d, keys) ==
    IF keys = {} THEN <<>>
    ELSE LET key == CHOOSE x \in keys : TRUE
         IN  << Quote, KeySpelling[key], Quote, <<":">> >> \o JsonText(d[key])
                \o (IF keys = {key} THEN <<>> ELSE << <<",">> >>)
                \o MembersText(d, keys \ {key})

JsonText(x) ==
    CASE x.k = "none" -> <<s_null>>
      [] x.k = "int" -> <<DigitsOf(x.n)>>
      [] x.k = "str" -> <<Quote>> \o (IF x.s = <<>> THEN <<>> ELSE <<x.s>>) \o <<Quote>>
      [] x.k = "list" -> << <<"[">> >> \o ItemsText(x.items, 1) \o << <<"]">> >>
      [] x.k = "dict" -> << <<"{">> >> \o MembersText(x.d, DOMAIN x.d) \o << <<"}">> >>

\* the model.getById descriptor around a model record, and the embedded
\* state around one descriptor
PageDescriptor(st) ==
    MkDict([queryKey |-> MkList(<<MkList(<<MkStr(s_model), MkStr(s_getById)>>)>>), state |-> st])

PageModel(versions) ==
    NextDataOf(MkList(<<PageDescriptor(MkDict("data" :>
        MkDict([id |-> MkInt(7), type |-> MkStr(Sample.LORA), modelVersions |-> versions])))>>))

\* the trees a page embeds: the sample model; states the resolver finds no
\* record in (no trpcState, no query, a list at the top); wrong-shaped trees
\* (a descriptor whose state is null, versions and files that are no dicts)
\* PageVersions are the versions of the sample model: the first with a model
\* file that has a download URL, the second, published later, with one that
\* has none
PageTrees ==
    LET PageVersions ==
                << MkDict([id |-> MkInt(1), publishedAt |-> MkStr(Sample.d1), baseModel |-> MkStr(Sample.SDXL),
                           files |-> MkList(<<MkDict([type |-> MkStr(s_Model), name |-> MkStr(Sample.a),
                                                      url |-> MkStr(Sample.u1),
                                                      hashes |-> MkList(<<MkDict([type |-> MkStr(Sample.AutoV2),
                                                                                  hash |-> MkStr(Sample.x)])>>)])>>)]),
                   MkDict([id |-> MkInt(2), publishedAt |-> MkStr(Sample.d2),
                           files |-> MkList(<<MkDict([type |-> MkStr(s_Model), name |-> MkStr(Sample.b)])>>)]) >>
    IN  [ model |-> PageModel(MkList(PageVersions)),
          noTrpc |-> PathPrefix(1, 2),
          noQuery |-> NextDataOf(MkList(<<>>)),
          list |-> MkList(<<MkInt(1)>>),
          nullState |-> NextDataOf(MkList(<<PageDescriptor(None)>>)),
          badQuery |-> NextDataOf(MkList(<<MkInt(1)>>)),
          badVersion |-> PageModel(MkList(<<MkInt(1)>>)),
          badFile |-> PageModel(MkList(<<MkDict([id |-> MkInt(1), files |-> MkList(<<MkInt(1)>>)])>>)) ]

Script(attrs, body) == [tag |-> "script", attrs |-> attrs, body |-> body]
Img(class, src) == [tag |-> "img", class |-> class, src |-> src]

\* the pages fetched: script elements followed by img elements.
\* Bodies are the bodies of the state's script element: every tree as plain
\* JSON, two of them with &quot; for every double quote and one between
\* blanks, a string that holds an escaped quote, null, and texts that are no
\* JSON before and after the replacement.
\* ScriptChoices are the script elements of a page: none, the state under the
\* identifier as written and in another case, a script with another
\* identifier, alone and in front of the state.
\* ImgChoices are its img elements: none, the preview image, a preview image
\* behind another image of the image host, an image of another host, an img
\* without attributes.
Pages ==
    LET EntityEncoded(raw) == [i \in 1..Len(raw) |-> IF raw[i] = Quote THEN s_quot ELSE raw[i]]
        Bodies ==
            { JsonText(PageTrees[t]) : t \in DOMAIN PageTrees }
            \cup { EntityEncoded(JsonText(PageTrees[t])) : t \in {"model", "noTrpc"} }
            \cup { << <<" ">> >> \o JsonText(PageTrees.noTrpc) \o << <<" ", " ">> >>,
                   << <<"[">>, Quote, s_quot, Quote, <<"]">> >>,
                   <<s_null>>,
                   <<>>,
                   << <<"{">>, PageSample.bad >>,
                   << <<"{">>, s_quot, KeySpelling.props, s_quot >> }
        ScriptChoices ==
            { <<>> }
            \cup { <<Script(PageSample.std, b)>> : b \in Bodies }
            \cup { <<Script(PageSample.upper, JsonText(PageTrees.model))>>,
                   <<Script(PageSample.foreign, JsonText(PageTrees.model))>>,
                   <<Script(PageSample.foreign, <<>>),
                     Script(PageSample.std, JsonText(PageTrees.noTrpc))>> }
        ImgChoices ==
            { <<>>,
              <<Img(MkList(<<MkStr(PageSample.mt), MkStr(PageSample.cls)>>), MkStr(PageSample.edge))>>,
              <<Img(None, MkStr(PageSample.first)),
                Img(MkList(<<MkStr(PageSample.cls)>>), MkStr(PageSample.edge))>>,
              <<Img(MkList(<<MkStr(PageSample.cls)>>), MkStr(PageSample.host))>>,
              <<Img(None, None)>> }
    IN  { s \o i : s \in ScriptChoices, i \in ImgChoices }

\* what requests.get of fetch_html ends with: a page, or an exception
\* (transport failure, or a status raise_for_status rejects)
Failure == [k |-> "failed"]
Body(raw) == [k |-> "body", body |-> raw]
PageAnswers == { Failure } \cup { Body(p) : p \in Pages }

\* the trees the API answers with
ApiTrees ==
    [ both |-> MkDict("modelVersions" :> MkList(<<
                   MkDict([id |-> MkInt(1),
                           images |-> MkList(<<MkDict("url" :> MkStr(PageSample.api))>>)]),
                   MkDict([id |-> MkStr(Sample.two),
                           images |-> MkList(<<MkDict([url |-> None,
                                                       urlSmall |-> MkStr(PageSample.small)])>>)]) >>)),
      noVersions |-> EmptyDict,
      noImages |-> MkDict("modelVersions" :> MkList(<<MkDict([id |-> MkInt(1), images |-> MkList(<<>>)])>>)),
      blankUrl |-> MkDict("modelVersions" :> MkList(<<
                       MkDict("images" :> MkList(<<MkDict("urlThumbnail" :> MkStr(Sample.sp))>>)) >>)),
      list |-> MkList(<<>>),
      badVersions |-> MkDict("modelVersions" :> MkInt(5)),
      badImage |-> MkDict("modelVersions" :> MkList(<<MkDict("images" :> MkList(<<MkInt(1)>>))>>)) ]

\* what the GET request of fetch_preview_image_url_from_api ends with
ApiAnswers ==
    { Failure, Body(<<PageSample.page>>) } \cup { Body(JsonText(ApiTrees[t])) : t \in DOMAIN ApiTrees }

-----------------------------------------------------------------------------
(* extract_details_from_url, statement by statement                        *)

Idle == <<>>

\* no statement has raised and the function has not returned; once a
\* statement raises, pc stays at it
Running == outcome = "running"

\* model_data = find_model_from_trpc(next_data, model_id)
Resolve ==
    /\ pc = "resolve" /\ Running
    /\ LET r == find_model_from_trpc(next_data, model_id)
       IN  IF Raised(r)
           THEN /\ outcome' = "raised"
                /\ UNCHANGED pc
                /\ UNCHANGED model_data
           ELSE /\ model_data' = r
                /\ pc' = "select"
                /\ UNCHANGED outcome
    /\ UNCHANGED <<url, model_id, version_id, html, next_data, version_data,
                   details, preview_url, calls,
                   api_answer, earlier, status, saved>>

\* version_data = choose_model_version(model_data, version_id) if model_data
\* else None
Select ==
    /\ pc = "select" /\ Running
    /\ LET r == IF Truthy(model_data) THEN choose_model_version(model_data, version_id)
                ELSE None
       IN  IF Raised(r)
           THEN /\ outcome' = "raised"
                /\ UNCHANGED pc
                /\ UNCHANGED version_data
           ELSE /\ version_data' = r
                /\ pc' = "fields"
                /\ UNCHANGED outcome
    /\ UNCHANGED <<url, model_id, version_id, html, next_data, model_data,
                   details, preview_url, calls,
                   api_answer, earlier, status, saved>>

\* one entry of calls: the request or scan made, what it was made for, and
\* what came back
Call(op, arg, resp) == [op |-> op, arg |-> arg, resp |-> resp]

\* details = extract_fields(model_data, version_data); resp is the response to
\* the HEAD request of fetch_real_filename, should one be made
Fields ==
    /\ pc = "fields" /\ Running
    /\ \E resp \in ProbeResponses :
         LET r == extract_fields(model_data, version_data, resp)
         IN  IF Raised(r)
             THEN /\ outcome' = "raised"
                  /\ UNCHANGED pc
                  /\ UNCHANGED <<details, calls>>
             ELSE /\ details' = r.result
                  /\ calls' = calls \o [i \in 1..Len(r.probed) |->
                                          Call("HEAD", r.probed[i], resp)]
                  /\ pc' = "api"
                  /\ UNCHANGED outcome
    /\ UNCHANGED <<url, model_id, version_id, html, next_data, model_data,
                   version_data, preview_url,
                   api_answer, earlier, status, saved>>

\* model_id, version_id = extract_ids_from_url(url)
Ids ==
    /\ pc = "ids" /\ Running
    /\ model_id' = extract_ids_from_url(url).model_id
    /\ version_id' = extract_ids_from_url(url).version_id
    /\ pc' = "fetch"
    /\ UNCHANGED <<url, html, next_data, model_data, version_data, details,
                   preview_url, calls, outcome,
                   api_answer, earlier, status, saved>>

\* a run that comes after an earlier run for the same url is one in which
\* requests.get of the page and of the API answer as they did in that run
Replays(answer, seen) == IF earlier.k = "none" THEN TRUE ELSE answer = seen

\* html = fetch_html(url): requests.get and raise_for_status, whose exception
\* nothing catches
Fetch ==
    /\ pc = "fetch" /\ Running
    /\ \E answer \in PageAnswers :
         /\ Replays(answer, Body(earlier.html))
         /\ calls' = Append(calls, Call("GET", url, answer.k))
         /\ IF answer.k = "failed"
            THEN /\ outcome' = "raised"
                 /\ UNCHANGED pc
                 /\ UNCHANGED html
            ELSE /\ html' = answer.body
                 /\ pc' = "locate"
                 /\ UNCHANGED outcome
    /\ UNCHANGED <<url, model_id, version_id, next_data, model_data, version_data,
                   details, preview_url,
                   api_answer, earlier, status, saved>>

\* if next_data is None
StateMissing(nd) == IsNone(nd)

\* next_data = extract_next_data(html), and the branch on it
Locate ==
    /\ pc = "locate" /\ Running
    /\ LET r == extract_next_data(html)
       IN  IF Raised(r)
           THEN /\ outcome' = "raised"
                /\ UNCHANGED pc
                /\ UNCHANGED next_data
           ELSE /\ next_data' = r
                /\ pc' = IF StateMissing(r) THEN "scrape_first" ELSE "resolve"
                /\ UNCHANGED outcome
    /\ UNCHANGED <<url, model_id, version_id, html, model_data, version_data,
                   details, preview_url, calls,
                   api_answer, earlier, status, saved>>

\* (a variant of NothingFound that falls back whatever was found)
AlwaysFallsBack(found) == TRUE

\* if not preview_url
NothingFound(found) == ~Truthy(found)

\* without embedded state: preview_url = extract_preview_image_url(html),
\* empty = {k: "" for k in TARGET_FIELDS}, and return unless nothing was found
ScrapeFirst ==
    /\ pc = "scrape_first" /\ Running
    /\ LET r == extract_preview_image_url(html)
       IN  /\ preview_url' = r
           /\ details' = EmptyFields
           /\ calls' = Append(calls, Call("markup", Idle, r))
           /\ IF NothingFound(r)
              THEN pc' = "api_fallback" /\ UNCHANGED outcome
              ELSE pc' = "done" /\ outcome' = "returned"
    /\ UNCHANGED <<url, model_id, version_id, html, next_data, model_data, version_data,
                   api_answer, earlier, status, saved>>

\* without embedded state and without an image in the markup:
\* preview_url = fetch_preview_image_url_from_api(model_id, version_id), return
ApiFallback ==
    /\ pc = "api_fallback" /\ Running
    /\ \E answer \in ApiAnswers :
         LET r == fetch_preview_image_url_from_api(model_id, version_id, answer)
         IN  /\ Replays(answer, earlier.api_answer)
             /\ api_answer' = answer
             /\ calls' = Append(calls, Call("api", model_id, r))
             /\ IF Raised(r)
                THEN outcome' = "raised" /\ UNCHANGED <<pc, preview_url>>
                ELSE outcome' = "returned" /\ pc' = "done" /\ preview_url' = r
    /\ UNCHANGED <<url, model_id, version_id, html, next_data, model_data, version_data,
                   details,
                   earlier, status, saved>>

\* with embedded state: preview_url = fetch_preview_image_url_from_api(model_id,
\* version_id), and return unless nothing was found
ApiFirst ==
    /\ pc = "api" /\ Running
    /\ \E answer \in ApiAnswers :
         LET r == fetch_preview_image_url_from_api(model_id, version_id, answer)
         IN  /\ Replays(answer, earlier.api_answer)
             /\ api_answer' = answer
             /\ calls' = Append(calls, Call("api", model_id, r))
             /\ IF Raised(r)
                THEN outcome' = "raised" /\ UNCHANGED <<pc, preview_url>>
                ELSE /\ preview_url' = r
                     /\ IF NothingFound(r)
                        THEN pc' = "scrape" /\ UNCHANGED outcome
                        ELSE pc' = "done" /\ outcome' = "returned"
    /\ UNCHANGED <<url, model_id, version_id, html, next_data, model_data, version_data,
                   details,
                   earlier, status, saved>>

\* with embedded state and without an image from the API:
\* preview_url = extract_preview_image_url(html), return
ScrapeFallback ==
    /\ pc = "scrape" /\ Running
    /\ LET r == extract_preview_image_url(html)
       IN  /\ preview_url' = r
           /\ calls' = Append(calls, Call("markup", Idle, r))
    /\ pc' = "done"
    /\ outcome' = "returned"
    /\ UNCHANGED <<url, model_id, version_id, html, next_data, model_data, version_data,
                   details,
                   api_answer, earlier, status, saved>>

Init ==
    /\ pc = "ids"
    /\ url \in Urls
    /\ model_id = None /\ version_id = None /\ html = None /\ next_data = None
    /\ model_data = None /\ version_data = None /\ details = Idle
    /\ preview_url = None /\ calls = <<>> /\ outcome = "running"
    /\ api_answer = None /\ earlier = None /\ status = None /\ saved = <<>>

Next ==
    \/ Ids
    \/ Fetch
    \/ Locate
    \/ ScrapeFirst
    \/ ApiFallback
    \/ Resolve
    \/ Select
    \/ Fields
    \/ ApiFirst
    \/ ScrapeFallback

Spec == Init /\ [][Next]_vars

\* extract_details_from_url(url) is called again after it returned: what the
\* first call observed and returned is kept in earlier, and the locals start
\* afresh
Rerun ==
    /\ pc = "done" /\ outcome = "returned" /\ earlier.k = "none"
    /\ earlier' = [k |-> "run", html |-> html, api_answer |-> api_answer,
                   details |-> details, calls |-> calls]
    /\ pc' = "ids" /\ outcome' = "running"
    /\ model_id' = None /\ version_id' = None /\ html' = None /\ next_data' = None
    /\ model_data' = None /\ version_data' = None /\ details' = Idle
    /\ preview_url' = None /\ calls' = <<>> /\ api_answer' = None
    /\ UNCHANGED <<url, status, saved>>

NextTwice ==
    \/ Ids
    \/ Fetch
    \/ Locate
    \/ ScrapeFirst
    \/ ApiFallback
    \/ Resolve
    \/ Select
    \/ Fields
    \/ ApiFirst
    \/ ScrapeFallback
    \/ Rerun

\* two calls of extract_details_from_url for one url, the second observing the
\* page and the API answer of the first
SpecTwice == Init /\ [][NextTwice]_vars

-----------------------------------------------------------------------------
(* process_url, statement by statement                                     *)

\* the two status strings of process_url, and the prefix it asks for
Message ==
    [ done |-> <<"d", "o", "n", "e", "~", "!">>,
      failed |-> <<"f", "a", "i", "l", "e", "d", " ", "t", "o", " ", "f", "e", "t", "c", "h", " ", "d", "a", "t", "a", ".", " ", "p", "l", "e", "a", "s", "e", " ", "c", "h", "e", "c", "k", " ", "t", "h", "e", " ", "u", "r", "l", " ", "a", "n", "d", " ", "t", "r", "y", " ", "a", "g", "a", "i", "n", ".">>,
      http |-> <<"h", "t", "t", "p">> ]

\* (a variant of Accepts that lets every input through)
AcceptsAnything(u) == TRUE

\* url.startswith("http"), the test of l.599
Accepts(u) == StartsWith(u, Message.http)

\* url = (url or "").strip(), and the return of the failure message for a
\* url that does not start with "http"
Enter ==
    /\ pc = "enter"
    /\ url' = Strip(Or(url, MkStr(<<>>)).s)
    /\ IF Accepts(url')
       THEN pc' = "ids" /\ UNCHANGED status
       ELSE pc' = "finished" /\ status' = MkStr(Message.failed)
    /\ UNCHANGED <<model_id, version_id, html, next_data, model_data, version_data,
                   details, preview_url, calls, outcome, api_answer, earlier, saved>>

\* save_preview_image(preview_url, file_name): os.makedirs is outside every
\* try and can raise; a download that fails falls back to default.png, and a
\* copy that fails or a default.png that is missing only prints a warning
SaveImage ==
    /\ pc = "done" /\ outcome = "returned" /\ status.k = "none"
    /\ \E made_dir \in BOOLEAN, downloaded \in BOOLEAN, copied \in BOOLEAN :
         IF ~made_dir
         THEN /\ saved' = Append(saved, [op |-> "save_preview_image", did |-> "raised"])
              /\ pc' = "except"
         ELSE /\ saved' = Append(saved, [op |-> "save_preview_image",
                              did |-> IF (Truthy(preview_url) /\ downloaded) \/ copied
                                      THEN "wrote" ELSE "wrote nothing"])
              /\ pc' = "save_txt"
    /\ UNCHANGED <<url, model_id, version_id, html, next_data, model_data, version_data,
                   details, preview_url, calls, outcome, api_answer, earlier, status>>

\* save_details_txt(details, url): os.makedirs can raise; a write that fails
\* only prints a warning
SaveReport ==
    /\ pc = "save_txt"
    /\ \E made_dir \in BOOLEAN, wrote \in BOOLEAN :
         IF ~made_dir
         THEN /\ saved' = Append(saved, [op |-> "save_details_txt", did |-> "raised"])
              /\ pc' = "except"
         ELSE /\ saved' = Append(saved, [op |-> "save_details_txt",
                              did |-> IF wrote THEN "wrote" ELSE "wrote nothing"])
              /\ pc' = "return"
    /\ UNCHANGED <<url, model_id, version_id, html, next_data, model_data, version_data,
                   details, preview_url, calls, outcome, api_answer, earlier, status>>

\* the opening of the output folder, inside a try of its own and changing
\* nothing here, and return "done~!"
ReturnDone ==
    /\ pc = "return"
    /\ status' = MkStr(Message.done)
    /\ pc' = "finished"
    /\ UNCHANGED <<url, model_id, version_id, html, next_data, model_data, version_data,
                   details, preview_url, calls, outcome, api_answer, earlier, saved>>

\* except Exception: a statement of the pipeline or a save function raised;
\* return the failure message
Caught ==
    /\ status.k = "none"
    /\ outcome = "raised" \/ pc = "except"
    /\ status' = MkStr(Message.failed)
    /\ pc' = "finished"
    /\ UNCHANGED <<url, model_id, version_id, html, next_data, model_data, version_data,
                   details, preview_url, calls, outcome, api_answer, earlier, saved>>

\* process_url(url) for no value, for texts that are empty, blank, of another
\* scheme, in upper case or "http" alone, and for the URLs of the pipeline as
\* they are and between blanks
InitProcess ==
    /\ pc = "enter"
    /\ url \in {None}
              \cup { MkStr(u) : u \in Urls }
              \cup { MkStr(<<" ">> \o u \o <<" ", " ">>) : u \in Urls }
              \cup { MkStr(<<>>), MkStr(<<" ", " ">>), MkStr(Message.http),
                     MkStr(<<"f", "t", "p", ":", "/", "/", "c", ".", "i", "o">>),
                     MkStr(<<"H", "T", "T", "P", ":", "/", "/", "c", ".", "i", "o">>),
                     MkStr(<<"c", ".", "i", "o", "/", "h", "t", "t", "p">>) }
    /\ model_id = None /\ version_id = None /\ html = None /\ next_data = None
    /\ model_data = None /\ version_data = None /\ details = Idle
    /\ preview_url = None /\ calls = <<>> /\ outcome = "running"
    /\ api_answer = None /\ earlier = None /\ status = None /\ saved = <<>>

NextProcess ==
    \/ Enter
    \/ Ids
    \/ Fetch
    \/ Locate
    \/ ScrapeFirst
    \/ ApiFallback
    \/ Resolve
    \/ Select
    \/ Fields
    \/ ApiFirst
    \/ ScrapeFallback
    \/ SaveImage
    \/ SaveReport
    \/ ReturnDone
    \/ Caught

SpecProcess == InitProcess /\ [][NextProcess]_vars

-----------------------------------------------------------------------------
(* The functions of the pipeline run alone                                 *)

InitResolver ==
    /\ pc = "resolve"
    /\ next_data \in ResolverStates
    /\ model_id \in {None} \cup { MkInt(i) : i \in {5, 7, 9} }
    /\ url = Idle /\ version_id = None /\ html = None /\ model_data = None
    /\ version_data = None /\ details = Idle /\ preview_url = None
    /\ calls = <<>> /\ outcome = "running"
    /\ api_answer = None /\ earlier = None /\ status = None /\ saved = <<>>

SpecResolver == InitResolver /\ [][Resolve]_vars

InitSelector ==
    /\ pc = "select"
    /\ model_data \in SelectorInputs
    /\ version_id \in {None} \cup { MkInt(i) : i \in {1, 2, 3} }
    /\ url = Idle /\ model_id = None /\ html = None /\ next_data = None
    /\ version_data = None /\ details = Idle /\ preview_url = None
    /\ calls = <<>> /\ outcome = "running"
    /\ api_answer = None /\ earlier = None /\ status = None /\ saved = <<>>

SpecSelector == InitSelector /\ [][Select]_vars

InitFields ==
    /\ pc = "fields"
    /\ model_data = ModelForFields
    /\ version_data \in FieldInputs
    /\ url = Idle /\ model_id = None /\ version_id = None /\ html = None
    /\ next_data = None /\ details = Idle /\ preview_url = None
    /\ calls = <<>> /\ outcome = "running"
    /\ api_answer = None /\ earlier = None /\ status = None /\ saved = <<>>

SpecFields == InitFields /\ [][Fields]_vars

InitHash ==
    /\ pc = "fields"
    /\ model_data = ModelForFields
    /\ version_data \in { VersionWithHashes(h) : h \in HashInputs }
    /\ url = Idle /\ model_id = None /\ version_id = None /\ html = None
    /\ next_data = None /\ details = Idle /\ preview_url = None
    /\ calls = <<>> /\ outcome = "running"
    /\ api_answer = None /\ earlier = None /\ status = None /\ saved = <<>>

SpecHash == InitHash /\ [][Fields]_vars

-----------------------------------------------------------------------------
(* Claims about find_model_from_trpc (SpecResolver)                        *)

\* the query list of the embedded state, <<>> when the path does not reach one
QueryList == IF Raised(QueriesOf(next_data)) THEN <<>> ELSE QueriesOf(next_data).items

PathMissing == Raised(QueriesOf(next_data))

\* descriptor q is a candidate: its queryKey starts with a list that starts
\* with "model", "getById", and its state.data is a keyed record
IsCandidate(q) ==
    /\ "queryKey" \in DOMAIN q.d
    /\ q.d["queryKey"].k = "list"
    /\ Len(q.d["queryKey"].items) >= 1
    /\ q.d["queryKey"].items[1].k = "list"
    /\ Len(q.d["queryKey"].items[1].items) >= 2
    /\ q.d["queryKey"].items[1].items[1] = MkStr(s_model)
    /\ q.d["queryKey"].items[1].items[2] = MkStr(s_getById)
    /\ "state" \in DOMAIN q.d
    /\ "data" \in DOMAIN q.d["state"].d
    /\ q.d["state"].d["data"].k = "dict"

Candidates == { i \in 1..Len(QueryList) : IsCandidate(QueryList[i]) }

DataAt(i) == QueryList[i].d["state"].d["data"]

HasId(d, mid) == "id" \in DOMAIN d.d /\ d.d["id"] = mid

IdMatches == { i \in Candidates : HasId(DataAt(i), model_id) }

Min(S) == CHOOSE i \in S : \A j \in S : i <= j
Max(S) == CHOOSE i \in S : \A j \in S : i >= j

Resolved == pc = "select"

\* C2, as the spec states it: without a target model id and with two or more
\* candidates, find_model_from_trpc returns the data of the last candidate.
C2_ReturnsLastCandidate ==
    (Resolved /\ IsNone(model_id) /\ Cardinality(Candidates) >= 2)
        => model_data = DataAt(Max(Candidates))

\* C2, amended: without a target model id and with two or more candidates,
\* find_model_from_trpc returns the data of the first candidate in list order,
\* whatever the candidates' ids.
C2_ReturnsFirstCandidate ==
    (Resolved /\ IsNone(model_id) /\ Cardinality(Candidates) >= 2)
        => model_data = DataAt(Min(Candidates))

\* two or more candidates, the first and the last with different data, and a
\* candidate with another id in front
C2_Witness ==
    /\ Resolved /\ IsNone(model_id) /\ Cardinality(Candidates) >= 2
    /\ DataAt(Min(Candidates)) # DataAt(Max(Candidates))
    /\ model_data = DataAt(Min(Candidates))

\* C3: with a target model id, find_model_from_trpc returns the data of the
\* first candidate whose data.id equals the target; when no candidate's id
\* equals it, the data of the last candidate; when there is no candidate or a
\* key of the path is missing, no value.  It never returns the record of a
\* descriptor that is no candidate.
C3_TargetSelection ==
    (Resolved /\ ~IsNone(model_id)) =>
        /\ IdMatches # {} => model_data = DataAt(Min(IdMatches))
        /\ (IdMatches = {} /\ Candidates # {}) => model_data = DataAt(Max(Candidates))
        /\ (Candidates = {} \/ PathMissing) => IsNone(model_data)
        /\ model_data # ForeignRecord

\* the target's id is carried by the second of three candidates only, behind a
\* descriptor that is no candidate
C3_WitnessMatch ==
    /\ Resolved /\ ~IsNone(model_id)
    /\ Cardinality(Candidates) >= 2
    /\ IdMatches # {} /\ Min(IdMatches) > Min(Candidates)
    /\ \E i \in 1..Len(QueryList) : i \notin Candidates /\ i < Min(IdMatches)
    /\ model_data = DataAt(Min(IdMatches))

-----------------------------------------------------------------------------
(* Claims about choose_model_version (SpecSelector)                        *)

Selected == pc = "fields"

\* the version list of the model record, <<>> when it has none
VersionList ==
    IF "modelVersions" \in DOMAIN model_data.d /\ model_data.d["modelVersions"].k = "list"
    THEN model_data.d["modelVersions"].items
    ELSE <<>>

\* publishedAt read as a string, a missing value as the empty string
PublishedKey(v) ==
    IF "publishedAt" \in DOMAIN v.d /\ v.d["publishedAt"].k = "str"
    THEN v.d["publishedAt"].s
    ELSE <<>>

\* the versions whose id converts to the target version id
IdHits ==
    { i \in 1..Len(VersionList) :
        /\ "id" \in DOMAIN VersionList[i].d
        /\ ~Raised(PyInt(VersionList[i].d["id"]))
        /\ PyInt(VersionList[i].d["id"]) = version_id }

\* the versions no other version's key is lexically greater than
Latest ==
    { i \in 1..Len(VersionList) :
        \A j \in 1..Len(VersionList) :
            ~StrLess(PublishedKey(VersionList[i]), PublishedKey(VersionList[j])) }

\* C4: choose_model_version returns no value for an absent or empty version
\* list; the first version whose id converts to the target version id when
\* there is one; otherwise the version with the lexically greatest publishedAt
\* (a missing one read as ""), the first in list order among equals.
C4_VersionSelection ==
    Selected =>
        /\ VersionList = <<>> => IsNone(version_data)
        /\ (~IsNone(version_id) /\ IdHits # {}) => version_data = VersionList[Min(IdHits)]
        /\ (VersionList # <<>> /\ (IsNone(version_id) \/ IdHits = {}))
              => version_data = VersionList[Min(Latest)]

\* no version has the target id; two versions share the greatest publishedAt,
\* a version with a smaller one stands in front of them, and the first of the
\* two is returned
C4_WitnessTie ==
    /\ Selected /\ ~IsNone(version_id) /\ IdHits = {}
    /\ Cardinality(Latest) >= 2
    /\ Min(Latest) > 1
    /\ VersionList[Min(Latest)] # VersionList[Max(Latest)]
    /\ version_data = VersionList[Min(Latest)]

-----------------------------------------------------------------------------
(* Claims about extract_fields (SpecFields, SpecHash)                      *)

Extracted == pc = "api"

\* the file list of the version, <<>> when it has none
FileList ==
    IF "files" \in DOMAIN version_data.d /\ version_data.d["files"].k = "list"
    THEN version_data.d["files"].items
    ELSE <<>>

\* the type of file f equals "model" when case is ignored
QualifiesAnyCase(f) ==
    /\ "type" \in DOMAIN f.d
    /\ f.d["type"].k = "str"
    /\ Upper(f.d["type"].s) = Upper(s_model)

AnyCaseModelFiles == { i \in 1..Len(FileList) : QualifiesAnyCase(FileList[i]) }

\* the response to the HEAD request made, Raise when none was made
ProbeResponse == IF calls # <<>> THEN calls[1].resp ELSE Raise

HasUrl(f) == "url" \in DOMAIN f.d /\ f.d["url"].k = "str" /\ f.d["url"].s # <<>>

\* C5, as the spec states it: Hash and File Name come from the first file whose
\* type equals "model" in any letter case ("Model", "model", "MODEL"), no other
\* file is probed, and both are "" when no file qualifies.
C5_FirstModelFileAnyCase ==
    Extracted =>
        IF AnyCaseModelFiles = {}
        THEN details["Hash"] = <<>> /\ details["File Name"] = <<>> /\ calls = <<>>
        ELSE LET f == FileList[Min(AnyCaseModelFiles)]
             IN  /\ details["Hash"] = HashOf(f)
                 /\ \A i \in 1..Len(calls) : HasUrl(f) /\ calls[i].arg = f.d["url"]
                 /\ (HasUrl(f) => Len(calls) = 1)
                 /\ (HasUrl(f) = (calls # <<>>)) =>
                        details["File Name"] = FileNameOf(f, ProbeResponse)

\* the files the loop of extract_fields takes for the model file
CodeModelFiles ==
    { i \in 1..Len(FileList) :
        /\ "type" \in DOMAIN FileList[i].d
        /\ FileList[i].d["type"] \in {MkStr(s_Model), MkStr(s_model)} }

\* the stored name of file f, trimmed
StoredName(f) ==
    IF "name" \in DOMAIN f.d /\ f.d["name"].k = "str" THEN Strip(f.d["name"].s) ELSE <<>>

\* C6, as the spec states it: File Name is the name the probe of the download
\* URL returns when the model file has a url and the probe yields a non-empty
\* name; in every other case, a model file without url included, it is the
\* stored name, trimmed; without url no probe is made.
C6_FileNameFallsBackToStoredName ==
    (Extracted /\ CodeModelFiles # {}) =>
        LET f == FileList[Min(CodeModelFiles)]
            real_name == fetch_real_filename(ProbeResponse)
        IN  /\ HasUrl(f) = (calls # <<>>)
            /\ details["File Name"] =
                  IF HasUrl(f) /\ real_name.k = "str" /\ real_name.s # <<>>
                  THEN real_name.s
                  ELSE StoredName(f)

\* the hash list of the one model file of SpecHash, <<>> when hashes is no list
HashList ==
    IF FileList # <<>> /\ "hashes" \in DOMAIN FileList[1].d
         /\ FileList[1].d["hashes"].k = "list"
    THEN FileList[1].d["hashes"].items
    ELSE <<>>

HashesIsList ==
    FileList # <<>> /\ "hashes" \in DOMAIN FileList[1].d /\ FileList[1].d["hashes"].k = "list"

ClaimedOrder ==
    << <<"A", "U", "T", "O", "V", "2">>, <<"S", "H", "A", "2", "5", "6">>,
       <<"S", "H", "A", "1">>, <<"C", "R", "C", "3", "2">> >>

\* the records of the type ClaimedOrder[n] whose hash is not empty; a hash of
\* blanks counts as empty here, the reading most favourable to the code
UsableOfType(n) ==
    { i \in 1..Len(HashList) :
        /\ Upper(HashList[i].d["type"].s) = ClaimedOrder[n]
        /\ Strip(HashList[i].d["hash"].s) # <<>> }

UsableTypes == { n \in 1..Len(ClaimedOrder) : UsableOfType(n) # {} }

\* C7, as the spec states it: for a list of typed hash records, Hash is
\* "<TYPE> | <value>" for the first type of AUTOV2 > SHA256 > SHA1 > CRC32 that
\* has a record with a non-empty hash, value being the hash of the first such
\* record of that type in list order; Hash is "" when there is none.
C7_HashByPreferenceOrder ==
    (Extracted /\ HashesIsList) =>
        details["Hash"] =
            IF UsableTypes = {} THEN <<>>
            ELSE ClaimedOrder[Min(UsableTypes)] \o s_bar
                   \o Strip(HashList[Min(UsableOfType(Min(UsableTypes)))].d["hash"].s)

-----------------------------------------------------------------------------
(* Claims about extract_details_from_url (Spec)                            *)

FieldNames == { TARGET_FIELDS[i] : i \in 1..Len(TARGET_FIELDS) }

\* the positions in calls of the requests and strategies of one kind
CallsOf(op) == { i \in 1..Len(calls) : calls[i].op = op }

\* the strategy logged at position i of calls found no image
YieldedNothing(i) == calls[i].resp.k = "none" \/ calls[i].resp = MkStr(<<>>)

\* C1: extract_details_from_url never raises to its caller: whatever the page
\* fetch, the embedded-state parse, the lookups and the API call end with, it
\* returns a mapping with the seven keys and an optional preview URL.
C1_OrchestratorNeverRaises ==
    /\ outcome # "raised"
    /\ outcome = "returned" =>
          /\ DOMAIN details = FieldNames
          /\ preview_url.k \in {"none", "str"}

\* the embedded state was located: the statements after the branch on
\* next_data run, or one of them has run last
StateLocated == pc \in {"resolve", "select", "fields", "api", "scrape", "done"} /\ ~IsNone(next_data)

\* the embedded state was not located: the page was scanned and next_data is
\* None
StateNotLocated == pc \in {"scrape_first", "api_fallback", "done"} /\ IsNone(next_data)

\* C8, as the spec states it: in every run that reaches preview resolution,
\* whether or not the embedded state was located, the API strategy is tried
\* first and the markup strategy only if the API strategy yielded nothing.
C8_ApiAlwaysFirst ==
    \A i \in CallsOf("markup") : \E j \in CallsOf("api") : j < i /\ YieldedNothing(j)

\* C8, as the code behaves: when the embedded state was located the API
\* strategy is tried first and the markup strategy only if the API yielded
\* nothing; when it was not located the markup strategy is tried first and
\* the API strategy only if the markup yielded nothing.  Each strategy is
\* tried at most once, and the preview URL returned is what the strategy
\* tried last yielded.
C8_StrategyOrderByBranch ==
    /\ StateLocated =>
          \A i \in CallsOf("markup") : \E j \in CallsOf("api") : j < i /\ YieldedNothing(j)
    /\ StateNotLocated =>
          \A j \in CallsOf("api") : \E i \in CallsOf("markup") : i < j /\ YieldedNothing(i)
    /\ Cardinality(CallsOf("markup")) <= 1
    /\ Cardinality(CallsOf("api")) <= 1
    /\ outcome = "returned" =>
          /\ calls[Len(calls)].op \in {"api", "markup"}
          /\ preview_url = calls[Len(calls)].resp
          /\ \A i \in CallsOf("api") \cup CallsOf("markup") : i < Len(calls) => YieldedNothing(i)

\* a run without embedded state in which the markup holds no image and the
\* API, asked second, yields one
C8_WitnessMarkupThenApi ==
    /\ outcome = "returned" /\ StateNotLocated
    /\ CallsOf("markup") # {} /\ CallsOf("api") # {}
    /\ \A i \in CallsOf("markup") : \A j \in CallsOf("api") : i < j
    /\ Truthy(preview_url)

\* the script elements of the page that carry the identifier
NextDataScripts == { i \in 1..Len(html) : IsNextDataScript(html[i]) }

\* the text of the first of them, trimmed
NextDataText == StripLexemes(html[Min(NextDataScripts)].body)

\* extract_next_data has run on the fetched page
LocateDone == pc # "ids" /\ pc # "fetch" /\ ~(pc = "locate" /\ Running)

\* C9: extract_next_data never raises: without a script element of the
\* identifier it returns no value; text that parses as JSON gives its tree;
\* otherwise the text is parsed once more with every &quot; replaced by a
\* double quote, which gives its tree, or no value when that parse fails too.
C9_LocatorNeverRaises ==
    LocateDone =>
        /\ ~(pc = "locate" /\ outcome = "raised")
        /\ next_data =
              IF NextDataScripts = {} THEN None
              ELSE IF ~Raised(json_loads(NextDataText)) THEN json_loads(NextDataText)
              ELSE IF ~Raised(json_loads(ReplaceQuot(NextDataText)))
                   THEN json_loads(ReplaceQuot(NextDataText))
              ELSE None

\* the resolver has run on a located state and has found no record
NoRecord == pc \in {"select", "fields", "api", "scrape", "done"} /\ ~IsNone(next_data) /\ IsNone(model_data)

\* C10: when the page is fetched and its embedded state parses but the
\* resolver yields no value, extract_details_from_url returns the seven
\* fields, every one empty, issues no file-name probe, and runs preview
\* resolution (API, then markup if the API gave nothing) without raising.
C10_NoRecordStillReturns ==
    NoRecord =>
        /\ outcome # "raised"
        /\ CallsOf("HEAD") = {}
        /\ pc \in {"api", "scrape", "done"} =>
              /\ DOMAIN details = FieldNames
              /\ \A f \in FieldNames : details[f] = <<>>
        /\ pc \in {"scrape", "done"} => CallsOf("api") # {}
        /\ \A i \in CallsOf("markup") : \E j \in CallsOf("api") : j < i /\ YieldedNothing(j)
        /\ (outcome = "returned" /\ \A j \in CallsOf("api") : YieldedNothing(j))
              => CallsOf("markup") # {}

-----------------------------------------------------------------------------
(* C11: two runs on the same page and the same API answer                  *)

\* a second run for the same url has returned after a first that returned
SecondReturned == earlier.k = "run" /\ outcome = "returned"

\* the HEAD requests among the calls cs, in order: the URL probed and what
\* came back
Probed(cs) == SelectSeq(cs, LAMBDA c : c.op = "HEAD")

\* the URLs probed among the calls cs, in order
ProbedUrls(cs) == [i \in 1..Len(Probed(cs)) |-> Probed(cs)[i].arg]

\* C11 (as claimed): two runs for the same URL that observe the same page and
\* the same API answer return identical fields, all seven values equal,
\* whatever else differs, the outcome of the file-name probe included.
C11_SameFieldsWhateverTheProbe ==
    SecondReturned => details = earlier.details

\* C11 (amended): two such runs return the same Type, Published, Base Model,
\* Usage Tips, Trigger Words and Hash and probe the same URLs; File Name is
\* the same too when the probes were answered alike (or none was made), so
\* only File Name can differ, and only under differing probe answers.
C11_SameFieldsUnlessProbeDiffers ==
    SecondReturned =>
        /\ DOMAIN details = FieldNames /\ DOMAIN earlier.details = FieldNames
        /\ \A key \in FieldNames \ {"File Name"} : details[key] = earlier.details[key]
        /\ ProbedUrls(calls) = ProbedUrls(earlier.calls)
        /\ Probed(calls) = Probed(earlier.calls) => details = earlier.details

\* two runs on the same page and API answer whose probes were answered
\* differently and whose File Name differs
C11_WitnessProbeDiffers ==
    /\ SecondReturned
    /\ html = earlier.html /\ api_answer = earlier.api_answer
    /\ Probed(calls) # Probed(earlier.calls)
    /\ details["File Name"] # earlier.details["File Name"]
    /\ details["Hash"] = earlier.details["Hash"] /\ details["Hash"] # <<>>

-----------------------------------------------------------------------------
(* C12: process_url                                                        *)

\* the trimmed input starts with the four characters h, t, t, p
LooksHttp == Len(url) >= 4 /\ url[1] = "h" /\ url[2] = "t" /\ url[3] = "t" /\ url[4] = "p"

Done == status = MkStr(Message.done)
Rejected == status = MkStr(Message.failed)

\* one of the two save functions raised
SaveRaised == \E i \in 1..Len(saved) : saved[i].did = "raised"

\* both save functions were called, the image first, and neither raised
BothSavesCompleted ==
    /\ Len(saved) = 2 /\ ~SaveRaised
    /\ saved[1].op = "save_preview_image" /\ saved[2].op = "save_details_txt"

\* the call is at the first statement, at a statement inside the try that
\* has not raised, or on its way into the except clause: no exception has
\* left process_url
InsideBody ==
    \/ pc = "enter"
    \/ pc \in {"ids", "fetch", "locate", "scrape_first", "api_fallback", "resolve",
               "select", "fields", "api", "scrape"} /\ outcome \in {"running", "raised"}
    \/ pc = "done" /\ outcome = "returned"
    \/ pc \in {"save_txt", "return", "except"} /\ outcome = "returned"

\* C12: process_url never raises and returns one of two status strings.  For
\* an input that after trimming does not start with "http" it returns the
\* rejection message without entering the pipeline: no page fetch, no API
\* call, no probe, no image or report saved.  For any other input it returns
\* "done~!" only if the pipeline, the image save and the report save all
\* completed without an exception, and the rejection message otherwise; after
\* a failure of the pipeline no save function has been called.
C12_ProcessUrlStatus ==
    /\ status.k = "none" => InsideBody
    /\ pc = "finished" <=> status.k = "str"
    /\ status.k = "str" => Done \/ Rejected
    /\ pc # "enter" =>
          /\ ~LooksHttp =>
                /\ Rejected
                /\ calls = <<>> /\ saved = <<>>
                /\ outcome = "running" /\ IsNone(html)
          /\ Done => LooksHttp /\ outcome = "returned" /\ BothSavesCompleted
          /\ (Rejected /\ LooksHttp) => outcome = "raised" \/ SaveRaised
          /\ (Rejected /\ outcome = "raised") => saved = <<>>

\* a call for an http URL whose pipeline made requests and then raised: the
\* rejection message is returned and nothing was saved
C12_WitnessPipelineFailure ==
    /\ Rejected /\ LooksHttp
    /\ outcome = "raised" /\ calls # <<>> /\ saved = <<>>

====
